---- MODULE Spec2Model ----
(***************************************************************************)
(* Model of the discovery crate: the node registry (lib.rs Nodes and      *)
(* vlan.rs Nodes), the DNS discovery lifecycle (dns.rs) and the LAN        *)
(* discovery lifecycle (vlan.rs).                                          *)
(*                                                                         *)
(* Time is counted in ticks of 1/TicksPerSec second, so that               *)
(* Duration::as_secs (truncation to whole seconds) is a real conversion.   *)
(* Option<T> is modelled as a sequence: <<>> is None, <<v>> is Some(v).    *)
(* An Ipv4Addr is the tuple of its four octets.                            *)
(***************************************************************************)
EXTENDS Integers, Sequences, FiniteSets, TLC

VARIABLES
    own_ips,    \* Nodes.own_ips: the self-ignore set, fixed by Nodes::new
    data,       \* Nodes.data: HashMap<Ipv4Addr, Node>, a function on its keys
    sent,       \* every value handed to Nodes.tx.send, in order
    now,        \* the monotonic clock read by Instant::now(), in ticks
    last,       \* the last completed registry call: [op, ip, ret]
    lastObs,    \* per IP, the clock of the last add call for it (-1: never)
    live,       \* IPs added (not self) and not evicted since
    inserted,   \* every IP put into the map by add, in order of insertion
    lock,       \* the writer holding Nodes.data's RwLock: None or Some(task)
    pc,         \* per calling task, its position inside add
    arg,        \* per calling task, the arguments of its call of add
    tags,       \* dns::discover's tags argument
    wildcard,   \* the resolver answers every query, in time (a misconfigured zone)
    ctorPc,     \* position of dns::discover itself
    loopPc,     \* position of the task dns::discover spawns
    sweepTag,   \* perform_dns_checks: index of the tag being enumerated
    sweepSeq,   \* perform_dns_checks: seq
    shutdownSends, \* number of sends on the watch channel shutdown_tx
    up,         \* the one-shot up_tx/up_rx (ready)
    fin,        \* number of sends on the one-shot fin_tx (terminated)
    deadline,   \* the clock at which the loop's sleep(DNS_CHECK_INTERVAL) ends
    loopSweeps, \* sweeps started by the spawned loop
    firstRecorded, \* IPs inserted by the sweep dns::discover runs itself
    vdata,      \* vlan::Nodes.data: HashMap<Ipv4Addr, vlan::Node>
    lanOwnIp,   \* vlan::discover's own_ip
    lanCancel,  \* the one-shot cancel_tx the caller of vlan::discover holds
    fwdPc,      \* position of the task forwarding the cancellation
    sig,        \* the one-shots broadcast_tx, receive_tx, reap_tx: sent or not
    lanPc,      \* position of broadcast_own_ip, receive_broadcasts, reap_nodes
    sleepEnd,   \* the clock at which the sleep of the broadcaster / reaper ends
    late,       \* the resolver's responses may arrive after the 5 s timeout
    shutdownTx, \* the watch sender shutdown_tx: "held" or "dropped"
    sockq,      \* datagrams waiting in the buffer of the connected DNS socket
    sweepLog,   \* the queries of the current sweep, in order, with their outcome
    lanLog,     \* the steps of the broadcaster and of the reaper, in order
    warned,     \* receive_broadcasts has logged its non-private-IP warning
    keepLog,    \* whether the histories sweepLog and lanLog are kept
    mainPc,     \* position of main's Vlan arm: its while-let receive loop
    subPos,     \* the receiver main holds: None, or Some(events sent before it subscribed)
    printed     \* every IP main has printed with dbg!, in order

regVars == <<own_ips, data, sent, now, last, lastObs, live, inserted>>

concVars == <<lock, pc, arg>>

dnsVars == <<tags, wildcard, ctorPc, loopPc, sweepTag, sweepSeq, shutdownSends,
             up, fin, deadline, loopSweeps, firstRecorded,
             late, shutdownTx, sockq, sweepLog>>

lanVars == <<vdata, lanOwnIp, lanCancel, fwdPc, sig, lanPc, sleepEnd, lanLog, warned>>

modeVars == <<keepLog>>

cmdVars == <<mainPc, subPos, printed>>

vars == <<regVars, concVars, dnsVars, lanVars, modeVars, cmdVars>>

----------------------------------------------------------------------------
(* Program constants *)

BROADCAST_INTERVAL == 5

MAX_SILENT_INTERVALS == 10

DNS_CHECK_INTERVAL == 3600

SEQ_CAP == 100

(* Bounds of the model *)

TicksPerSec == 2

MaxSeq == 1

MaxDnsIntervals == 1

MaxZone == 2

MaxSends == 1

MaxLanTicks == 2

----------------------------------------------------------------------------
(* Addresses and call inputs *)

Loopback == <<127, 0, 0, 1>>

Eth0Ip == <<10, 0, 0, 5>>

PeerIp == <<10, 0, 0, 6>>

IPs == {Loopback, Eth0Ip, PeerIp}

Tags == {"uk-lon"}

None == <<>>

Some(v) == <<v>>

\* the (tag, seq) pairs callers pass: none (LAN style) or both (DNS style)
TagSeqs == {[tag |-> None, seq |-> None]}
           \cup {[tag |-> Some(t), seq |-> Some(s)] : t \in Tags, s \in 1..MaxSeq}

\* what get_if_addrs() reports on the host: eth0 carries an IPv6 and an IPv4
IfAddrs == << [name |-> "lo", v4 |-> TRUE, ip |-> Loopback],
              [name |-> "eth0", v4 |-> FALSE, ip |-> <<0, 0, 0, 0>>],
              [name |-> "eth0", v4 |-> TRUE, ip |-> Eth0Ip] >>

InterfaceLists == {<<>>, <<"eth0">>, <<"eth1">>, <<"eth1", "eth0">>}

\* the expiry threshold in ticks, and the instants the clock can show
ExpiryTicks == MAX_SILENT_INTERVALS * BROADCAST_INTERVAL * TicksPerSec

TimePoints == {0, 1} \cup (ExpiryTicks .. (ExpiryTicks + TicksPerSec))

----------------------------------------------------------------------------
(* lib.rs: get_ip, Nodes *)

RECURSIVE GetIpFrom(_, _, _)
GetIpFrom(addrs, i, interface) ==
    IF i > Len(addrs) THEN None
    ELSE IF addrs[i].name = interface /\ addrs[i].v4 THEN Some(addrs[i].ip)
    ELSE GetIpFrom(addrs, i + 1, interface)

get_ip(interface) == GetIpFrom(IfAddrs, 1, interface)

RECURSIVE OwnIpsFrom(_, _)
OwnIpsFrom(interfaces, i) ==
    IF i > Len(interfaces) THEN {}
    ELSE (IF get_ip(interfaces[i]) # None THEN {get_ip(interfaces[i])[1]} ELSE {})
         \cup OwnIpsFrom(interfaces, i + 1)

NodesNewOwnIps(interfaces) == OwnIpsFrom(interfaces, 1) \cup {Loopback}

Node(ip, tag, seq, t) == [ip |-> ip, tag |-> tag, seq |-> seq, last_seen |-> t]

test(d, ip) == ip \in DOMAIN d

MapInsertOnly(d, ip, node) == [k \in {ip} |-> node]

MapInsert(d, ip, node) ==
    [k \in (DOMAIN d) \cup {ip} |-> IF k = ip THEN node ELSE d[k]]

AddInsertsAlways(d, own, ip) == ip \notin own

AddInsertsNoSelf(d, own, ip) == ~test(d, ip)

\* the condition under which add inserts (and publishes and returns true)
AddInserts(d, own, ip) == ~test(d, ip) /\ ip \notin own

\* the map after add(ip, tag, seq) at clock t
AddData(d, own, ip, tag, seq, t) ==
    IF AddInserts(d, own, ip) THEN MapInsert(d, ip, Node(ip, tag, seq, t)) ELSE d

all(d) == {d[k] : k \in DOMAIN d}

as_secs(ticks) == ticks \div TicksPerSec

RetainedLate(node, t) ==
    as_secs(t - node.last_seen) <= (MAX_SILENT_INTERVALS + 1) * BROADCAST_INTERVAL

\* the closure given to retain
Retained(node, t) ==
    as_secs(t - node.last_seen) <= MAX_SILENT_INTERVALS * BROADCAST_INTERVAL

ReapData(d, t) == [k \in {x \in DOMAIN d : Retained(d[x], t)} |-> d[k]]

----------------------------------------------------------------------------
(* The registry as a state machine: every call is one atomic step, as the  *)
(* write lock is held from the first line of add/reap to its return.       *)

RegInit ==
    /\ \E interfaces \in InterfaceLists : own_ips = NodesNewOwnIps(interfaces)
    /\ data = << >>
    /\ sent = << >>
    /\ now = 0
    /\ last = [op |-> "new", ip |-> Loopback, ret |-> FALSE]
    /\ lastObs = [ip \in IPs |-> -1]
    /\ live = {}
    /\ inserted = << >>

Tasks == {"dns", "lan"}

ConcInit ==
    /\ lock = None
    /\ pc = [t \in Tasks |-> "idle"]
    /\ arg = [t \in Tasks |-> [ip |-> Loopback, tag |-> None, seq |-> None]]

Add(ip, tag, seq) ==
    /\ data' = AddData(data, own_ips, ip, tag, seq, now)
    /\ sent' = IF AddInserts(data, own_ips, ip) THEN Append(sent, ip) ELSE sent
    /\ inserted' = IF test(data', ip) /\ ~test(data, ip)
                   THEN Append(inserted, ip) ELSE inserted
    /\ last' = [op |-> "add", ip |-> ip, ret |-> AddInserts(data, own_ips, ip)]
    /\ lastObs' = [lastObs EXCEPT ![ip] = now]
    /\ live' = IF ip \in own_ips THEN live ELSE live \cup {ip}
    /\ UNCHANGED <<own_ips, now>>

Reap ==
    /\ data' = ReapData(data, now)
    /\ last' = [op |-> "reap", ip |-> Loopback, ret |-> FALSE]
    /\ live' = live \ ((DOMAIN data) \ (DOMAIN data'))
    /\ UNCHANGED <<own_ips, sent, now, lastObs, inserted>>

Advance(t) ==
    /\ t > now
    /\ now' = t
    /\ UNCHANGED <<own_ips, data, sent, last, lastObs, live, inserted>>

LanIdle ==
    /\ vdata = << >>
    /\ lanOwnIp = Loopback
    /\ lanCancel = "none"
    /\ fwdPc = "none"
    /\ sig = [l \in {"broadcast", "receive", "reap"} |-> FALSE]
    /\ lanPc = [l \in {"broadcast", "receive", "reap"} |-> "none"]
    /\ sleepEnd = [l \in {"broadcast", "reap"} |-> 0]
    /\ lanLog = << >>
    /\ warned = FALSE

DnsIdle ==
    /\ tags = << >>
    /\ wildcard = FALSE
    /\ ctorPc = "none"
    /\ loopPc = "unspawned"
    /\ sweepTag = 1
    /\ sweepSeq = 0
    /\ shutdownSends = 0
    /\ up = "empty"
    /\ fin = 0
    /\ deadline = 0
    /\ loopSweeps = 0
    /\ firstRecorded = {}
    /\ late = FALSE
    /\ shutdownTx = "held"
    /\ sockq = << >>
    /\ sweepLog = << >>

\* main has not entered its Vlan arm
CmdIdle ==
    /\ mainPc = "none"
    /\ subPos = None
    /\ printed = << >>

AddCall ==
    /\ \E ip \in IPs : \E ts \in TagSeqs : Add(ip, ts.tag, ts.seq)
    /\ UNCHANGED <<modeVars, cmdVars, concVars, dnsVars, lanVars>>

ReapCall == Reap /\ UNCHANGED <<modeVars, cmdVars, concVars, dnsVars, lanVars>>

Tick ==
    /\ \E t \in TimePoints : Advance(t)
    /\ UNCHANGED <<modeVars, cmdVars, concVars, dnsVars, lanVars>>

Init == RegInit /\ ConcInit /\ DnsIdle /\ LanIdle /\ CmdIdle /\ keepLog = FALSE

Next ==
    \/ AddCall
    \/ ReapCall
    \/ Tick

Spec == Init /\ [][Next]_vars

----------------------------------------------------------------------------
(* The registry with add taken line by line, called by two tasks (the DNS  *)
(* prober and the LAN receiver) while a reaper runs. The call history      *)
(* last, lastObs and live is not kept here.                                *)

LockDroppedAfterInsert(t) == None

\* the write guard taken at the top of add lives until add returns
LockAfterInsert(t) == Some(t)

\* let mut lock = self.data.write().unwrap();
AddEnter(t, ip, tag, seq) ==
    /\ pc[t] = "idle"
    /\ lock = None
    /\ lock' = Some(t)
    /\ pc' = [pc EXCEPT ![t] = "check"]
    /\ arg' = [arg EXCEPT ![t] = [ip |-> ip, tag |-> tag, seq |-> seq]]
    /\ UNCHANGED <<modeVars, cmdVars, regVars, dnsVars, lanVars>>

\* if !lock.contains_key(&ip) && !self.own_ips.contains(&ip) { lock.insert(..)
AddCheck(t) ==
    /\ pc[t] = "check"
    /\ data' = AddData(data, own_ips, arg[t].ip, arg[t].tag, arg[t].seq, now)
    /\ IF AddInserts(data, own_ips, arg[t].ip)
       THEN /\ inserted' = Append(inserted, arg[t].ip)
            /\ pc' = [pc EXCEPT ![t] = "send"]
            /\ lock' = LockAfterInsert(t)
       ELSE /\ inserted' = inserted
            /\ pc' = [pc EXCEPT ![t] = "ret_false"]
            /\ lock' = lock
    /\ UNCHANGED <<modeVars, cmdVars, own_ips, sent, now, last, lastObs, live, arg, dnsVars, lanVars>>

\* let _ = self.tx.send(ip);
AddSend(t) ==
    /\ pc[t] = "send"
    /\ sent' = Append(sent, arg[t].ip)
    /\ pc' = [pc EXCEPT ![t] = "ret_true"]
    /\ UNCHANGED <<modeVars, cmdVars, own_ips, data, now, last, lastObs, live, inserted, lock, arg, dnsVars, lanVars>>

\* return true / false: the guard is dropped
AddReturn(t) ==
    /\ pc[t] \in {"ret_true", "ret_false"}
    /\ lock' = IF lock = Some(t) THEN None ELSE lock
    /\ pc' = [pc EXCEPT ![t] = "idle"]
    /\ UNCHANGED <<modeVars, cmdVars, regVars, arg, dnsVars, lanVars>>

ReapLocked ==
    /\ lock = None
    /\ data' = ReapData(data, now)
    /\ UNCHANGED <<modeVars, cmdVars, own_ips, sent, now, last, lastObs, live, inserted, concVars, dnsVars, lanVars>>

ConcTimePoints == {0, ExpiryTicks + TicksPerSec}

ConcTick ==
    /\ \E t \in ConcTimePoints : Advance(t)
    /\ UNCHANGED <<modeVars, cmdVars, concVars, dnsVars, lanVars>>

ConcEnter == \E t \in Tasks : \E ip \in IPs : \E ts \in TagSeqs : AddEnter(t, ip, ts.tag, ts.seq)

ConcCheck == \E t \in Tasks : AddCheck(t)

ConcSend == \E t \in Tasks : AddSend(t)

ConcReturn == \E t \in Tasks : AddReturn(t)

NextConc ==
    \/ ConcEnter
    \/ ConcCheck
    \/ ConcSend
    \/ ConcReturn
    \/ ReapLocked
    \/ ConcTick

SpecConc == Init /\ [][NextConc]_vars

----------------------------------------------------------------------------
(* main.rs, the Vlan arm: while let Ok(ip) = nodes.rx().recv().await over  *)
(* the change channel of lib.rs Nodes                                      *)

CHANNEL_CAPACITY == 16

\* discover has returned; main is about to evaluate nodes.rx() for the
\* first time
CmdInit ==
    /\ mainPc = "subscribe"
    /\ subPos = None
    /\ printed = << >>

\* nodes.rx(): self.tx.subscribe(), a new receiver that gets the values
\* sent from now on
CmdSubscribe ==
    /\ mainPc = "subscribe"
    /\ subPos' = Some(Len(sent))
    /\ mainPc' = "recv"
    /\ UNCHANGED <<regVars, concVars, dnsVars, lanVars, modeVars, printed>>

\* .recv().await yields the oldest value sent since this receiver was made;
\* dbg!(ip); the receiver, a temporary of the loop condition, is dropped and
\* the condition is evaluated again
CmdRecv ==
    /\ mainPc = "recv"
    /\ Len(sent) > subPos[1]
    /\ Len(sent) - subPos[1] <= CHANNEL_CAPACITY
    /\ printed' = Append(printed, sent[subPos[1] + 1])
    /\ subPos' = None
    /\ mainPc' = "subscribe"
    /\ UNCHANGED <<regVars, concVars, dnsVars, lanVars, modeVars>>

InitCmd == RegInit /\ ConcInit /\ DnsIdle /\ LanIdle /\ CmdInit /\ keepLog = FALSE

NextCmd ==
    \/ AddCall
    \/ ReapCall
    \/ ConcTick
    \/ CmdSubscribe
    \/ CmdRecv

SpecCmd == InitCmd /\ [][NextCmd]_vars

----------------------------------------------------------------------------
(* dns.rs: discover, perform_dns_checks, get_dns *)

TagLists == {<<"uk-lon">>, <<"uk-lon", "us-nyc">>}

\* the answer sections the resolver may send when it is not a wildcard
Answers == {<< >>, <<Loopback>>, <<Loopback, PeerIp>>, <<Eth0Ip>>, <<PeerIp>>}

\* past the zone's MaxZone names per tag there is no usable answer
\* the wildcard zone answers every name, the last one under the cap with
\* an address of its own
AnswersAt(seq) ==
    IF wildcard THEN (IF seq < SEQ_CAP THEN {<<PeerIp>>} ELSE {<<Eth0Ip>>})
    ELSE IF seq <= MaxZone THEN Answers
    ELSE {<< >>, <<Loopback>>}

is_loopback(ip) == ip[1] = 127

\* get_dns: the first A record of the answer that is not a loopback address
RECURSIVE FirstNonLoopback(_, _)
FirstNonLoopback(answers, i) ==
    IF i > Len(answers) THEN None
    ELSE IF ~is_loopback(answers[i]) THEN Some(answers[i])
    ELSE FirstNonLoopback(answers, i + 1)

get_dns(answers) == FirstNonLoopback(answers, 1)

DnsTimePoints == {k * DNS_CHECK_INTERVAL * TicksPerSec : k \in 0..MaxDnsIntervals}

CtorFirstPcReady == "ready"

\* discover runs perform_dns_checks before it sends on up_tx
CtorFirstPc == "sweep"

OnShutdownContinue == "select"

\* the select arm of shutdown_rx.changed() breaks out of the loop
OnShutdownPc == "fin"

Sweeping == ctorPc = "sweep" \/ loopPc = "sweep"

SweepStops(i, seq) == <<i + 1, 0>>

\* the position of perform_dns_checks after the query of seq in tag i:
\* go on with the tag while seq < 100, else start the next tag
SweepOn(i, seq) == IF seq < SEQ_CAP THEN <<i, seq>> ELSE <<i + 1, 0>>

BreakSkips(i, seq) == SweepOn(i, seq)

BreakAbort(i, seq) == <<Len(tags) + 1, 0>>

\* Ok(None) and Err(e) both break out of the while loop: the next tag is
\* started with seq = 0
BreakTo(i, seq) == <<i + 1, 0>>

Prefix == "live"

Domain == "example.net"

\* format!("{}-{}-{}", prefix, tag, seq) and Name::from_fqdn(subdomain.domain)
QName(tag, seq) == <<Prefix, tag, seq, Domain>>

\* the responses the resolver may send to the query for (tag, seq)
Responses(tag, seq) ==
    {[name |-> QName(tag, seq), answers |-> a] : a \in AnswersAt(seq)}

\* socket.recv(&mut resp): the oldest datagram in the socket's buffer,
\* whatever query it answers; with an empty buffer, the response to the
\* query just sent if it comes within the timeout
Received(tag, seq) == IF sockq # << >> THEN {Head(sockq)} ELSE Responses(tag, seq)

\* the buffer after recv has taken a datagram: when that was an older one,
\* the response to the query just sent is lost or queues up behind it
AfterRecv(tag, seq) ==
    IF sockq = << >> THEN {<< >>}
    ELSE {Tail(sockq)} \cup {Append(Tail(sockq), r) : r \in Responses(tag, seq)}

\* the buffer after get_dns has failed: socket.send failed (nothing was
\* asked), or recv timed out on an empty buffer and the response is lost or
\* comes in later
AfterError(tag, seq) ==
    IF sockq # << >> THEN {sockq}
    ELSE IF late THEN {<< >>} \cup {<<r>> : r \in Responses(tag, seq)}
    ELSE {<< >>}

\* the history of the sweep, when it is kept
Logged(log, e) == IF keepLog THEN Append(log, e) ELSE log

ShutdownSeenOnSend == shutdownSends > 0

\* shutdown_rx.changed() completes when a value was sent and also, with an
\* error, when the sender is gone; the select arm ignores the result
ShutdownSeen == shutdownSends > 0 \/ shutdownTx = "dropped"

\* the 4-argument add of dns.rs: nothing is done for a self IP
Record(ip, tag, seq, is_self) ==
    IF is_self
    THEN /\ last' = [op |-> "add", ip |-> ip, ret |-> FALSE]
         /\ lastObs' = [lastObs EXCEPT ![ip] = now]
         /\ UNCHANGED <<own_ips, data, sent, now, live, inserted>>
    ELSE Add(ip, tag, seq)

DnsInit ==
    /\ tags \in TagLists
    /\ wildcard \in BOOLEAN
    /\ ctorPc = CtorFirstPc
    /\ loopPc = "unspawned"
    /\ sweepTag = 1
    /\ sweepSeq = 0
    /\ shutdownSends = 0
    /\ up = "empty"
    /\ fin = 0
    /\ deadline = 0
    /\ loopSweeps = 0
    /\ firstRecorded = {}
    /\ shutdownTx = "held"
    /\ sockq = << >>
    /\ sweepLog = << >>

\* one iteration of the while loop: seq += 1, get_dns, Ok(Some(ip))
DnsAnswer ==
    /\ Sweeping
    /\ sweepTag <= Len(tags)
    /\ sweepSeq < SEQ_CAP
    /\ \E d \in Received(tags[sweepTag], sweepSeq + 1) :
          /\ get_dns(d.answers) # None
          /\ LET ip == get_dns(d.answers)[1] IN
             /\ Record(ip, Some(tags[sweepTag]), Some(sweepSeq + 1), ip \in own_ips)
             /\ firstRecorded' = IF ctorPc = "sweep" /\ last'.ret
                                 THEN firstRecorded \cup {ip} ELSE firstRecorded
             /\ sweepLog' = Logged(sweepLog,
                                   [ti |-> sweepTag, tag |-> tags[sweepTag],
                                    seq |-> sweepSeq + 1, res |-> "some",
                                    ip |-> Some(ip), from |-> Some(d.name),
                                    ins |-> last'.ret])
    /\ sockq' \in AfterRecv(tags[sweepTag], sweepSeq + 1)
    /\ sweepTag' = SweepOn(sweepTag, sweepSeq + 1)[1]
    /\ sweepSeq' = SweepOn(sweepTag, sweepSeq + 1)[2]
    /\ UNCHANGED <<modeVars, cmdVars, lanVars, concVars, tags, wildcard, late, shutdownTx,
                   ctorPc, loopPc, shutdownSends, up, fin, deadline, loopSweeps>>

\* one iteration of the while loop: seq += 1, get_dns, Ok(None) or Err: break
DnsBreak ==
    /\ Sweeping
    /\ sweepTag <= Len(tags)
    /\ sweepSeq < SEQ_CAP
    /\ \/ \E d \in Received(tags[sweepTag], sweepSeq + 1) :
             /\ get_dns(d.answers) = None
             /\ sockq' \in AfterRecv(tags[sweepTag], sweepSeq + 1)
             /\ sweepLog' = Logged(sweepLog,
                                   [ti |-> sweepTag, tag |-> tags[sweepTag],
                                    seq |-> sweepSeq + 1, res |-> "none",
                                    ip |-> None, from |-> Some(d.name),
                                    ins |-> FALSE])
       \/ /\ ~wildcard
          /\ sockq' \in AfterError(tags[sweepTag], sweepSeq + 1)
          /\ sweepLog' = Logged(sweepLog,
                                [ti |-> sweepTag, tag |-> tags[sweepTag],
                                 seq |-> sweepSeq + 1, res |-> "err",
                                 ip |-> None, from |-> None, ins |-> FALSE])
    /\ sweepTag' = BreakTo(sweepTag, sweepSeq + 1)[1]
    /\ sweepSeq' = BreakTo(sweepTag, sweepSeq + 1)[2]
    /\ UNCHANGED <<modeVars, cmdVars, lanVars, regVars, concVars, tags, wildcard, late,
                   shutdownTx, ctorPc, loopPc, shutdownSends, up, fin, deadline,
                   loopSweeps, firstRecorded>>

\* perform_dns_checks returns to discover
CtorSweepDone ==
    /\ ctorPc = "sweep"
    /\ sweepTag > Len(tags)
    /\ ctorPc' = "ready"
    /\ UNCHANGED <<modeVars, cmdVars, lanVars, regVars, concVars, tags, wildcard, late, shutdownTx, sockq, sweepLog, loopPc, sweepTag, sweepSeq,
                   shutdownSends, up, fin, deadline, loopSweeps, firstRecorded>>

\* let _ = up_tx.send(());
CtorReady ==
    /\ ctorPc = "ready"
    /\ up' = "sent"
    /\ ctorPc' = "spawn"
    /\ UNCHANGED <<modeVars, cmdVars, lanVars, regVars, concVars, tags, wildcard, late, shutdownTx, sockq, sweepLog, loopPc, sweepTag, sweepSeq,
                   shutdownSends, fin, deadline, loopSweeps, firstRecorded>>

\* tokio::spawn(..): the loop starts its first select with a fresh sleep
CtorSpawn ==
    /\ ctorPc = "spawn"
    /\ ctorPc' = "return"
    /\ loopPc' = "select"
    /\ deadline' = now + DNS_CHECK_INTERVAL * TicksPerSec
    /\ UNCHANGED <<modeVars, cmdVars, lanVars, regVars, concVars, tags, wildcard, late, shutdownTx, sockq, sweepLog, sweepTag, sweepSeq,
                   shutdownSends, up, fin, loopSweeps, firstRecorded>>

\* Ok((up_rx, fin_rx, shutdown_tx, nodes))
CtorReturn ==
    /\ ctorPc = "return"
    /\ ctorPc' = "done"
    /\ UNCHANGED <<modeVars, cmdVars, lanVars, regVars, concVars, tags, wildcard, late, shutdownTx, sockq, sweepLog, loopPc, sweepTag, sweepSeq,
                   shutdownSends, up, fin, deadline, loopSweeps, firstRecorded>>

\* the holder of the handle sends on shutdown_tx
ShutdownSend ==
    /\ ctorPc = "done"
    /\ shutdownTx = "held"
    /\ shutdownSends < MaxSends
    /\ shutdownSends' = shutdownSends + 1
    /\ UNCHANGED <<modeVars, cmdVars, lanVars, regVars, concVars, tags, wildcard, late,
                   shutdownTx, sockq, sweepLog, ctorPc, loopPc, sweepTag, sweepSeq, up,
                   fin, deadline, loopSweeps, firstRecorded>>

\* the holder of the handle drops shutdown_tx
ShutdownDrop ==
    /\ ctorPc = "done"
    /\ shutdownTx = "held"
    /\ shutdownTx' = "dropped"
    /\ UNCHANGED <<modeVars, cmdVars, lanVars, regVars, concVars, tags, wildcard, late,
                   sockq, sweepLog, ctorPc, loopPc, sweepTag, sweepSeq, shutdownSends,
                   up, fin, deadline, loopSweeps, firstRecorded>>

\* select: _ = shutdown_rx.changed() => break
LoopShutdown ==
    /\ loopPc = "select"
    /\ ShutdownSeen
    /\ loopPc' = OnShutdownPc
    /\ UNCHANGED <<modeVars, cmdVars, lanVars, regVars, concVars, tags, wildcard, late,
                   shutdownTx, sockq, sweepLog, ctorPc, sweepTag, sweepSeq,
                   shutdownSends, up, fin, deadline, loopSweeps, firstRecorded>>

\* select: _ = sleep(DNS_CHECK_INTERVAL) => perform_dns_checks(..)
LoopTimer ==
    /\ loopPc = "select"
    /\ now >= deadline
    /\ loopPc' = "sweep"
    /\ sweepTag' = 1
    /\ sweepSeq' = 0
    /\ sweepLog' = << >>
    /\ loopSweeps' = loopSweeps + 1
    /\ UNCHANGED <<modeVars, cmdVars, lanVars, regVars, concVars, tags, wildcard, late,
                   shutdownTx, sockq, ctorPc, shutdownSends, up, fin, deadline,
                   firstRecorded>>

\* perform_dns_checks returns to the loop, which selects again
LoopSweepDone ==
    /\ loopPc = "sweep"
    /\ sweepTag > Len(tags)
    /\ loopPc' = "select"
    /\ deadline' = now + DNS_CHECK_INTERVAL * TicksPerSec
    /\ UNCHANGED <<modeVars, cmdVars, lanVars, regVars, concVars, tags, wildcard, late, shutdownTx, sockq, sweepLog, ctorPc, sweepTag, sweepSeq,
                   shutdownSends, up, fin, loopSweeps, firstRecorded>>

\* let _ = fin_tx.send(()); the task ends
LoopFin ==
    /\ loopPc = "fin"
    /\ fin' = fin + 1
    /\ loopPc' = "exited"
    /\ UNCHANGED <<modeVars, cmdVars, lanVars, regVars, concVars, tags, wildcard, late, shutdownTx, sockq, sweepLog, ctorPc, sweepTag, sweepSeq,
                   shutdownSends, up, deadline, loopSweeps, firstRecorded>>

DnsTick ==
    /\ ctorPc # "none"
    /\ \E t \in DnsTimePoints : Advance(t)
    /\ UNCHANGED <<modeVars, cmdVars, concVars, dnsVars, lanVars>>

InitDns == RegInit /\ ConcInit /\ DnsInit /\ LanIdle /\ CmdIdle /\ late = FALSE /\ keepLog = FALSE

LoopNext ==
    \/ DnsAnswer
    \/ DnsBreak
    \/ LoopTimer
    \/ LoopSweepDone
    \/ LoopFin

CtorNext ==
    \/ CtorSweepDone
    \/ CtorReady
    \/ CtorSpawn
    \/ CtorReturn

NextDns ==
    \/ CtorNext
    \/ LoopNext
    \/ LoopShutdown
    \/ ShutdownSend
    \/ ShutdownDrop
    \/ DnsTick

SpecDns == InitDns /\ [][NextDns]_vars

\* the runtime keeps polling the tasks; a select with several ready arms
\* takes each of them with positive probability
FairSpecDns ==
    /\ SpecDns
    /\ WF_vars(CtorNext)
    /\ WF_vars(LoopNext)
    /\ SF_vars(LoopShutdown)

\* the sweep discover runs itself, with its history, and a resolver whose
\* responses may come late
InitSweep ==
    /\ RegInit /\ ConcInit /\ DnsInit /\ LanIdle /\ CmdIdle
    /\ late \in BOOLEAN
    /\ keepLog = TRUE

\* a sweep takes no time on the scale of DNS_CHECK_INTERVAL
SweepTick == ~Sweeping /\ DnsTick

NextSweep ==
    \/ DnsAnswer
    \/ DnsBreak
    \/ CtorSweepDone
    \/ CtorReady
    \/ CtorSpawn
    \/ CtorReturn
    \/ SweepTick

SpecSweep == InitSweep /\ [][NextSweep]_vars

\* the sweeps of a discovery that is not shut down, the loop's included,
\* with their history, and a resolver whose responses come in time or never
InitLoopSweep ==
    /\ RegInit /\ ConcInit /\ DnsInit /\ LanIdle /\ CmdIdle
    /\ late = FALSE
    /\ keepLog = TRUE

NextLoopSweep ==
    \/ NextSweep
    \/ LoopTimer
    \/ LoopSweepDone

SpecLoopSweep == InitLoopSweep /\ [][NextLoopSweep]_vars

----------------------------------------------------------------------------
(* vlan.rs: Nodes, discover, receive_broadcasts, broadcast_own_ip,         *)
(* reap_nodes, get_own_private_ip, extract_private_ip                      *)

LoOnly == << [name |-> "lo", v4 |-> TRUE, ip |-> Loopback] >>

Eth1Ip == <<10, 1, 2, 3>>

Eth1Only == << [name |-> "lo", v4 |-> TRUE, ip |-> Loopback],
               [name |-> "eth1", v4 |-> TRUE, ip |-> Eth1Ip] >>

HostTables == {IfAddrs, LoOnly, Eth1Only}

BROADCAST_PORT == 12345

\* the first four bytes of the datagrams that reach the socket
Payloads == {Eth0Ip, <<10, 0, 0, 9>>}

\* the source addresses of the datagrams that reach the socket
Sources == {[v4 |-> TRUE, ip |-> PeerIp],
            [v4 |-> TRUE, ip |-> Eth0Ip],
            [v4 |-> TRUE, ip |-> <<192, 168, 1, 5>>],
            [v4 |-> FALSE, ip |-> <<0, 0, 0, 0>>]}

Loops == {"broadcast", "receive", "reap"}

\* Ipv4Addr::is_private: 10/8, 172.16/12, 192.168/16
is_private(ip) ==
    \/ ip[1] = 10
    \/ (ip[1] = 172 /\ ip[2] >= 16 /\ ip[2] <= 31)
    \/ (ip[1] = 192 /\ ip[2] = 168)

RECURSIVE OwnPrivateFrom(_, _)
OwnPrivateFrom(addrs, i) ==
    IF i > Len(addrs) THEN None
    ELSE IF addrs[i].v4 /\ is_private(addrs[i].ip) /\ addrs[i].ip[1] = 10
         THEN Some(addrs[i].ip)
    ELSE OwnPrivateFrom(addrs, i + 1)

get_own_private_ip(addrs) == OwnPrivateFrom(addrs, 1)

ExtractAnyPrivate(addr) ==
    IF addr.v4 /\ is_private(addr.ip) THEN Some(addr.ip) ELSE None

\* SocketAddr::V4 with is_private() and first octet 10, else None
extract_private_ip(addr) ==
    IF addr.v4 /\ is_private(addr.ip) /\ addr.ip[1] = 10 THEN Some(addr.ip) ELSE None

VNode(ip, t) == [ip |-> ip, last_seen |-> t]

\* vlan::Nodes::add: lock.entry(ip).or_insert(Node { ip, last_seen: now })
VAddData(d, ip, t) == IF test(d, ip) THEN d ELSE MapInsert(d, ip, VNode(ip, t))

\* the map after receive_broadcasts has handled a datagram from addr
RecvData(d, own, addr, t) ==
    IF extract_private_ip(addr) # None /\ extract_private_ip(addr)[1] # own
    THEN VAddData(d, extract_private_ip(addr)[1], t)
    ELSE d

\* Ipv4Addr::to_string, as its parts between the dots
to_string(ip) == <<ip[1], ip[2], ip[3], ip[4]>>

\* s.rsplit('.'): the parts from the last to the first
rsplit(parts) == [i \in 1..Len(parts) |-> parts[Len(parts) + 1 - i]]

\* Iterator::nth(n), counted from 0
nth(it, n) == IF n + 1 <= Len(it) THEN Some(it[n + 1]) ELSE None

\* Ipv4Addr::octets
octets(ip) == <<ip[1], ip[2], ip[3], ip[4]>>

\* format!("{}.255", own_ip.to_string().rsplit('.').nth(1).unwrap_or("")),
\* as its parts between the dots
broadcast_ip(own) ==
    IF nth(rsplit(to_string(own)), 1) # None
    THEN <<nth(rsplit(to_string(own)), 1)[1], 255>>
    ELSE <<255>>

\* the history of the broadcaster and the reaper, when it is kept
LanLogged(e) == IF keepLog THEN Append(lanLog, e) ELSE lanLog

\* cancel_rx.await completes when cancel_tx was sent on and also, with an
\* error, when it was dropped; the forwarding task ignores the result
CancelSeen == lanCancel \in {"sent", "dropped"}

\* vlan::discover makes the one-shots broadcast, receive, reap and cancel
\* and returns cancel_tx alone: no terminated one-shot exists to be sent on
LanTerminatedFired == FALSE

LanTimePoints ==
    {k * BROADCAST_INTERVAL * TicksPerSec : k \in 0..MaxLanTicks}
    \cup {ExpiryTicks + BROADCAST_INTERVAL * TicksPerSec}

SleepForNone == BROADCAST_INTERVAL * 0

\* sleep(BROADCAST_INTERVAL), in ticks
SleepFor == BROADCAST_INTERVAL * TicksPerSec

\* the state in which vlan::discover returns: the four tasks are spawned
LanInit ==
    /\ vdata = << >>
    /\ \E addrs \in HostTables :
          lanOwnIp = IF get_own_private_ip(addrs) # None
                     THEN get_own_private_ip(addrs)[1] ELSE Loopback
    /\ lanCancel = "held"
    /\ fwdPc = "await"
    /\ sig = [l \in Loops |-> FALSE]
    /\ lanPc = [l \in Loops |-> "select"]
    /\ sleepEnd = [l \in {"broadcast", "reap"} |-> SleepFor]
    /\ lanLog = << >>
    /\ warned = FALSE

\* the caller sends on the cancel_tx that discover returned
LanCancelSend ==
    /\ lanCancel = "held"
    /\ lanCancel' = "sent"
    /\ UNCHANGED <<modeVars, cmdVars, regVars, concVars, dnsVars, vdata, lanOwnIp, fwdPc,
                   sig, lanPc, sleepEnd, lanLog, warned>>

\* the caller drops the cancel_tx that discover returned
LanCancelDrop ==
    /\ lanCancel = "held"
    /\ lanCancel' = "dropped"
    /\ UNCHANGED <<modeVars, cmdVars, regVars, concVars, dnsVars, vdata, lanOwnIp, fwdPc,
                   sig, lanPc, sleepEnd, lanLog, warned>>

\* cancel_rx.await completes
FwdWake ==
    /\ fwdPc = "await"
    /\ CancelSeen
    /\ fwdPc' = "broadcast"
    /\ UNCHANGED <<modeVars, cmdVars, regVars, concVars, dnsVars, vdata, lanOwnIp, lanCancel, sig, lanPc, sleepEnd, lanLog, warned>>

\* broadcast_tx.send(()); receive_tx.send(()); reap_tx.send(());
FwdSend ==
    /\ fwdPc \in Loops
    /\ sig' = [sig EXCEPT ![fwdPc] = TRUE]
    /\ fwdPc' = CASE fwdPc = "broadcast" -> "receive"
                  [] fwdPc = "receive" -> "reap"
                  [] fwdPc = "reap" -> "done"
    /\ UNCHANGED <<modeVars, cmdVars, regVars, concVars, dnsVars, vdata, lanOwnIp, lanCancel, lanPc, sleepEnd, lanLog, warned>>

\* select: _ = &mut cancel_rx => break
LoopCancel(l) ==
    /\ lanPc[l] = "select"
    /\ sig[l]
    /\ lanPc' = [lanPc EXCEPT ![l] = "exited"]
    /\ UNCHANGED <<modeVars, cmdVars, regVars, concVars, dnsVars, vdata, lanOwnIp, lanCancel, fwdPc, sig, sleepEnd, lanLog, warned>>

LanLoopExit == \E l \in Loops : LoopCancel(l)

\* broadcast_own_ip, select: _ = sleep(BROADCAST_INTERVAL) => socket.send_to(..)
Broadcast ==
    /\ lanPc["broadcast"] = "select"
    /\ now >= sleepEnd["broadcast"]
    /\ lanLog' = LanLogged([ev |-> "send", to |-> broadcast_ip(lanOwnIp),
                            port |-> BROADCAST_PORT, payload |-> octets(lanOwnIp),
                            at |-> now])
    /\ sleepEnd' = [sleepEnd EXCEPT !["broadcast"] = now + SleepFor]
    /\ UNCHANGED <<modeVars, cmdVars, regVars, concVars, dnsVars, vdata, lanOwnIp,
                   lanCancel, fwdPc, sig, lanPc, warned>>

\* reap_nodes, select: _ = sleep(BROADCAST_INTERVAL) => nodes.reap()
ReapTick ==
    /\ lanPc["reap"] = "select"
    /\ now >= sleepEnd["reap"]
    /\ vdata' = ReapData(vdata, now)
    /\ lanLog' = LanLogged([ev |-> "reap", at |-> now])
    /\ sleepEnd' = [sleepEnd EXCEPT !["reap"] = now + SleepFor]
    /\ UNCHANGED <<modeVars, cmdVars, regVars, concVars, dnsVars, lanOwnIp, lanCancel,
                   fwdPc, sig, lanPc, warned>>

\* receive_broadcasts, select: result = socket.recv_from(..) => ..
Recv ==
    /\ lanPc["receive"] = "select"
    /\ \E addr \in Sources : \E payload \in Payloads :
          /\ vdata' = RecvData(vdata, lanOwnIp, addr, now)
          /\ warned' = (warned \/ extract_private_ip(addr) = None)
    /\ UNCHANGED <<modeVars, cmdVars, regVars, concVars, dnsVars, lanOwnIp, lanCancel,
                   fwdPc, sig, lanPc, sleepEnd, lanLog>>

LanTick ==
    /\ fwdPc # "none"
    /\ \E t \in LanTimePoints : Advance(t)
    /\ UNCHANGED <<modeVars, cmdVars, concVars, dnsVars, lanVars>>

InitLan == RegInit /\ ConcInit /\ DnsIdle /\ LanInit /\ CmdIdle /\ keepLog = FALSE

NextLan ==
    \/ LanCancelSend
    \/ LanCancelDrop
    \/ FwdWake
    \/ FwdSend
    \/ LanLoopExit
    \/ Broadcast
    \/ ReapTick
    \/ Recv
    \/ LanTick

SpecLan == InitLan /\ [][NextLan]_vars

\* a LAN discovery that is not cancelled, with the history of its
\* broadcaster and reaper
InitLanRun ==
    /\ RegInit /\ ConcInit /\ DnsIdle /\ LanInit /\ CmdIdle
    /\ keepLog = TRUE

NextLanRun ==
    \/ Broadcast
    \/ ReapTick
    \/ Recv
    \/ LanTick

SpecLanRun == InitLanRun /\ [][NextLanRun]_vars

\* main runs one of the two discoveries (main.rs: match args.command)
InitMain == InitDns \/ InitLan

NextMain ==
    \/ NextDns
    \/ NextLan

SpecMain == InitMain /\ [][NextMain]_vars

\* the runtime keeps polling the tasks; a select with several ready arms
\* takes each of them with positive probability
FairSpecMain ==
    /\ SpecMain
    /\ WF_vars(CtorNext)
    /\ WF_vars(LoopNext)
    /\ SF_vars(LoopShutdown)
    /\ WF_vars(FwdWake)
    /\ WF_vars(FwdSend)
    /\ \A l \in Loops : WF_vars(LoopCancel(l))

----------------------------------------------------------------------------
(* Claims about the registry, checked under Spec *)

\* C1: a call of add for an IP already present overwrites the stored tag,
\* seq and last_seen with the values of the call.
C1_RefreshOverwrites ==
    [][\A ip \in IPs : \A ts \in TagSeqs :
          (Add(ip, ts.tag, ts.seq) /\ test(data, ip))
              => data'[ip] = Node(ip, ts.tag, ts.seq, now)]_vars

\* C2: reap removes no record whose IP was observed (add was called for it)
\* during the preceding MAX_SILENT_INTERVALS x BROADCAST_INTERVAL seconds.
C2_ObservedSurvivesReap ==
    [][Reap => \A ip \in DOMAIN data :
                  (lastObs[ip] >= 0 /\ now - lastObs[ip] <= ExpiryTicks)
                      => test(data', ip)]_vars

\* C3: a value is sent on the change channel exactly in the steps in which
\* an absent IP enters the map, and add returns true exactly then; a call for
\* a present IP, a call for a self IP and reap send nothing.
C3_OneEventPerInsertion ==
    [][/\ \A ip \in IPs :
             (sent' = Append(sent, ip)) <=> (~test(data, ip) /\ test(data', ip))
       /\ sent' = sent \/ \E ip \in IPs : sent' = Append(sent, ip)
       /\ \A ip \in IPs : \A ts \in TagSeqs :
             Add(ip, ts.tag, ts.seq) =>
                /\ last'.ret <=> (sent' = Append(sent, ip))
                /\ (test(data, ip) \/ ip \in own_ips) => (sent' = sent /\ ~last'.ret)
       /\ Reap => sent' = sent]_vars

C3_Witness ==
    /\ Len(sent) = 1
    /\ last = [op |-> "add", ip |-> sent[1], ret |-> FALSE]
    /\ test(data, sent[1])

C5_ReapAtBoundary ==
    [][Reap => \A ip \in DOMAIN data :
                  (/\ lastObs[ip] = data[ip].last_seen
                   /\ now >= data[ip].last_seen + ExpiryTicks)
                      => ~test(data', ip)]_vars

\* C5 as amended: a reap at t >= t0 + 51 s (the whole seconds of t - t0
\* exceed 50) removes an IP inserted at t0 and not observed again.
C5_ReapPastBoundary ==
    [][Reap => \A ip \in DOMAIN data :
                  (/\ lastObs[ip] = data[ip].last_seen
                   /\ now >= data[ip].last_seen + ExpiryTicks + TicksPerSec)
                      => ~test(data', ip)]_vars

C5_Witness ==
    /\ last.op = "reap"
    /\ Len(inserted) = 1
    /\ ~test(data, inserted[1])
    /\ lastObs[inserted[1]] = 0

\* C6: after add of an IP that is not self, test is true of it until a reap
\* evicts it; test is false of an IP never added; all() holds exactly one
\* record for each IP added and not evicted since.
C6_TestAndAllAgree ==
    /\ (last.op = "add" /\ last.ip \notin own_ips) => test(data, last.ip)
    /\ \A ip \in IPs : lastObs[ip] = -1 => ~test(data, ip)
    /\ \A ip \in IPs : test(data, ip) <=> ip \in live
    /\ Cardinality(all(data)) = Cardinality(live)
    /\ \A ip \in live : Cardinality({n \in all(data) : n.ip = ip}) = 1

C6_Witness ==
    /\ Cardinality(all(data)) = 2
    /\ last.op = "add"
    /\ ~last.ret
    /\ Len(sent) = 2

\* C7: the events on the change channel appear in the order in which the
\* insertions took effect in the map: the channel is always a prefix of the
\* insertion order, at most the insertion of the task holding the lock is
\* not yet published, and nothing is unpublished when the lock is free.
C7_EventsInInsertionOrder ==
    /\ Len(sent) <= Len(inserted)
    /\ sent = SubSeq(inserted, 1, Len(sent))
    /\ Len(inserted) - Len(sent) <= 1
    /\ lock = None => sent = inserted

C7_Witness ==
    /\ Len(sent) = 3
    /\ sent[1] # sent[2]
    /\ sent[3] = sent[1]
    /\ \E t \in Tasks : pc[t] = "ret_true" /\ arg[t].ip = sent[3]

\* C8: after a shutdown send the DNS loop exits and terminated fires;
\* terminated fires at most once, only as the loop leaves, and the loop
\* starts no sweep once it has fired.
C8_ShutdownTerminates ==
    /\ [](fin <= 1)
    /\ [](fin >= 1 => loopPc = "exited")
    /\ [][fin' # fin => (loopPc = "fin" /\ loopPc' = "exited")]_vars
    /\ [][fin >= 1 => (loopSweeps' = loopSweeps /\ loopPc' = "exited")]_vars
    /\ (shutdownSends > 0) ~> (fin = 1 /\ loopPc = "exited")

C8_Witness ==
    /\ shutdownSends = 1
    /\ fin = 1
    /\ loopPc = "exited"
    /\ loopSweeps >= 1

\* C10: ready fires, and discover returns, only after discover's own sweep
\* has gone through all tags; when ready fires the nodes that sweep inserted
\* are in the registry and the loop task has run no sweep.
C10_FirstSweepBeforeReady ==
    [][/\ (up = "empty" /\ up' = "sent") =>
             /\ ctorPc = "ready"
             /\ sweepTag > Len(tags)
             /\ loopPc = "unspawned"
             /\ loopSweeps = 0
             /\ \A ip \in firstRecorded : test(data', ip)
       /\ (ctorPc # "done" /\ ctorPc' = "done") => up = "sent"]_vars

C10_Witness ==
    /\ up = "sent"
    /\ ctorPc = "spawn"
    /\ Len(tags) = 2
    /\ firstRecorded = {Eth0Ip, PeerIp}

\* C9: once the broadcaster, the receiver, the reaper and the forwarding
\* task of a LAN discovery have all ended, its terminated signal has fired.
C9_TerminatedAfterLoopsExit ==
    (fwdPc = "done" /\ \A l \in Loops : lanPc[l] = "exited") => LanTerminatedFired


----------------------------------------------------------------------------
(* Claims about a DNS sweep, checked under SpecSweep *)

SweepDone == sweepTag > Len(tags)

ErrorFree == \A j \in 1..Len(sweepLog) : sweepLog[j].res # "err"

\* the queries of the log follow each other as the two loops prescribe:
\* seq counts 1, 2, .. within a tag, goes on only after an answer, never
\* exceeds the cap, and the next tag starts at the first unanswered query
\* or at the cap
QueriesInOrder ==
    /\ \A j \in 1..Len(sweepLog) :
          /\ sweepLog[j].seq >= 1
          /\ sweepLog[j].seq <= SEQ_CAP
          /\ sweepLog[j].tag = tags[sweepLog[j].ti]
          /\ j = 1 => (sweepLog[j].ti = 1 /\ sweepLog[j].seq = 1)
          /\ j > 1 =>
                \/ /\ sweepLog[j].ti = sweepLog[j - 1].ti
                   /\ sweepLog[j].seq = sweepLog[j - 1].seq + 1
                   /\ sweepLog[j - 1].res = "some"
                \/ /\ sweepLog[j].ti = sweepLog[j - 1].ti + 1
                   /\ sweepLog[j].seq = 1
                   /\ (sweepLog[j - 1].res = "none" \/ sweepLog[j - 1].seq = SEQ_CAP)
    /\ SweepDone =>
          /\ Len(sweepLog) > 0
          /\ sweepLog[Len(sweepLog)].ti = Len(tags)
          /\ (sweepLog[Len(sweepLog)].res = "none" \/ sweepLog[Len(sweepLog)].seq = SEQ_CAP)

\* the index in the log of the first query that got the address ip
FirstAnswer(ip) ==
    CHOOSE j \in 1..Len(sweepLog) :
        /\ sweepLog[j].ip = Some(ip)
        /\ \A m \in 1..(j - 1) : sweepLog[m].ip # Some(ip)

\* after discover's own sweep the registry holds exactly the answers that
\* are not self, each under the tag and seq of the first query that got it
AnswersRecorded ==
    loopSweeps = 0 =>
       /\ DOMAIN data = {sweepLog[j].ip[1] : j \in {m \in 1..Len(sweepLog) :
                             sweepLog[m].res = "some" /\ sweepLog[m].ip[1] \notin own_ips}}
       /\ \A ip \in DOMAIN data :
             /\ data[ip].tag = Some(sweepLog[FirstAnswer(ip)].tag)
             /\ data[ip].seq = Some(sweepLog[FirstAnswer(ip)].seq)

\* k of tag i: the seq of its first query without a qualifying answer, or 100
KOf(i) ==
    IF \E j \in 1..Len(sweepLog) : sweepLog[j].ti = i /\ sweepLog[j].res = "none"
    THEN sweepLog[CHOOSE j \in 1..Len(sweepLog) :
                      sweepLog[j].ti = i /\ sweepLog[j].res = "none"].seq
    ELSE SEQ_CAP

\* C11 as stated: in a sweep without error the queries of each tag are
\* those for seq = 1..k in order, k the first seq without a qualifying answer
\* or 100, none beyond k or 100, and the answers recorded are exactly those
\* for seq < k.
C11_QueriesUpToFirstMiss ==
    ErrorFree =>
       /\ QueriesInOrder
       /\ AnswersRecorded
       /\ \A j \in 1..Len(sweepLog) :
             (sweepLog[j].ti < sweepTag /\ sweepLog[j].res = "some")
                 => sweepLog[j].seq < KOf(sweepLog[j].ti)

\* C11 as amended: in a sweep without error the queries of each tag are
\* those for seq = 1..k in order, k the first seq without a qualifying answer
\* or 100, none beyond k or 100, and the answers recorded are exactly those
\* for seq < k, and the answer for seq = 100 too when all 100 are answered.
C11_QueriesUpToFirstMissOrCap ==
    ErrorFree =>
       /\ QueriesInOrder
       /\ AnswersRecorded
       /\ \A j \in 1..Len(sweepLog) :
             (sweepLog[j].ti < sweepTag /\ sweepLog[j].res = "some")
                 => \/ sweepLog[j].seq < KOf(sweepLog[j].ti)
                    \/ sweepLog[j].seq = SEQ_CAP

C11_Witness ==
    /\ ErrorFree
    /\ ctorPc = "ready"
    /\ Len(sweepLog) >= 3
    /\ sweepLog[1].res = "some"
    /\ sweepLog[2].res = "some"
    /\ sweepLog[3].res = "none"
    /\ Cardinality(DOMAIN data) = 2
    /\ data[sweepLog[2].ip[1]].seq = Some(2)

\* the entry a step has just added to the history of the sweep
Newest == sweepLog'[Len(sweepLog')]

\* C12: an answer that is an IP of the self-ignore set is not inserted and
\* does not end the enumeration of the tag: the next seq is queried, and a
\* later answer that is not self is recorded with its own tag and seq (self
\* at seq = 1 and a peer at seq = 2 leave exactly the peer with seq = 2).
C12_SelfAnswerSkipped ==
    /\ [][(/\ Len(sweepLog') = Len(sweepLog) + 1
           /\ Newest.res = "some"
           /\ Newest.ip[1] \in own_ips)
             => /\ data' = data
                /\ sent' = sent
                /\ ~Newest.ins
                /\ Newest.seq < SEQ_CAP =>
                      (sweepTag' = sweepTag /\ sweepSeq' = Newest.seq)]_vars
    /\ [](\A j \in 1..Len(sweepLog) : \A m \in 1..Len(sweepLog) :
            (/\ j < m
             /\ sweepLog[j].res = "some"
             /\ sweepLog[j].ip[1] \in own_ips
             /\ sweepLog[m].res = "some"
             /\ sweepLog[m].ip[1] \notin own_ips
             /\ FirstAnswer(sweepLog[m].ip[1]) = m)
                => /\ sweepLog[j].ip[1] \notin DOMAIN data
                   /\ test(data, sweepLog[m].ip[1])
                   /\ data[sweepLog[m].ip[1]].tag = Some(sweepLog[m].tag)
                   /\ data[sweepLog[m].ip[1]].seq = Some(sweepLog[m].seq))
    /\ []((/\ Len(sweepLog) >= 2
           /\ sweepLog[1].res = "some"
           /\ sweepLog[1].ip[1] \in own_ips
           /\ sweepLog[2].res = "some"
           /\ sweepLog[2].ip[1] \notin own_ips)
             => /\ sweepLog[2].ti = 1
                /\ DOMAIN data = {sweepLog[2].ip[1]}
                /\ data[sweepLog[2].ip[1]].tag = Some(tags[1])
                /\ data[sweepLog[2].ip[1]].seq = Some(2))

C12_Witness ==
    /\ SweepDone
    /\ ctorPc = "ready"
    /\ Eth0Ip \in own_ips
    /\ Len(sweepLog) >= 3
    /\ sweepLog[1].ip = Some(Eth0Ip)
    /\ sweepLog[2].ip = Some(PeerIp)
    /\ sweepLog[3].res = "none"
    /\ all(data) = {Node(PeerIp, Some(tags[1]), Some(2), 0)}

----------------------------------------------------------------------------
(* Claims about the vlan command, checked under SpecCmd *)

\* C13: the vlan command prints every insertion event published on the
\* change channel once its receive loop has begun, while fewer than 16 are
\* pending: whenever the loop waits with no event pending, what it has
\* printed is all that was published since some point, in order.
C13_EveryEventPrinted ==
    (/\ mainPc = "recv"
     /\ subPos = Some(Len(sent))
     /\ Len(sent) < CHANNEL_CAPACITY)
        => \E k \in 1..(Len(sent) + 1) : printed = SubSeq(sent, k, Len(sent))

----------------------------------------------------------------------------
(* Claims about shutdown *)

\* C14: once shutdown has been sent the loop completes no further timer
\* step, even when the timer is ready at the same moment: a loop at its
\* select takes the shutdown arm, so no sweep starts after the send.
C14_ShutdownTakesPriority ==
    [][shutdownSends > 0 =>
          /\ loopSweeps' = loopSweeps
          /\ loopPc = "select" => loopPc' \in {"select", OnShutdownPc}]_vars

----------------------------------------------------------------------------
(* Claims about the broadcaster and the reaper, checked under SpecLanRun *)

----------------------------------------------------------------------------
(* Claims about errors in a sweep, checked under SpecLoopSweep *)

\* C16: an error of a query ends the enumeration of the current tag only:
\* the failed seq is not queried again in the sweep and no later seq of the
\* tag is, the remaining tags are still swept in order, the registry keeps
\* its entries, and the error does not leave the sweep: the sweep returns to
\* its caller and the loop goes on to its next select.
C16_ErrorEndsTagOnly ==
    /\ [](\A j \in 1..Len(sweepLog) : \A m \in 1..Len(sweepLog) :
            (sweepLog[j].res = "err" /\ j < m) => sweepLog[m].ti > sweepLog[j].ti)
    /\ [](\A j \in 2..Len(sweepLog) :
            /\ sweepLog[j].ti \in {sweepLog[j - 1].ti, sweepLog[j - 1].ti + 1}
            /\ sweepLog[j - 1].res = "err" =>
                  (sweepLog[j].ti = sweepLog[j - 1].ti + 1 /\ sweepLog[j].seq = 1))
    /\ [](SweepDone =>
            \A i \in 1..Len(tags) : \E j \in 1..Len(sweepLog) : sweepLog[j].ti = i)
    /\ [][(Len(sweepLog') = Len(sweepLog) + 1 /\ Newest.res = "err")
             => /\ data' = data
                /\ sent' = sent
                /\ ctorPc' = ctorPc
                /\ loopPc' = loopPc
                /\ sweepTag' = sweepTag + 1
                /\ sweepSeq' = 0]_vars
    /\ [][/\ loopPc = "sweep" => loopPc' \in {"sweep", "select"}
          /\ ctorPc = "sweep" => ctorPc' \in {"sweep", "ready"}]_vars

C16_Witness ==
    /\ loopPc = "select"
    /\ loopSweeps = 1
    /\ Len(tags) = 2
    /\ Len(sweepLog) >= 3
    /\ sweepLog[1].res = "some"
    /\ sweepLog[2].res = "err"
    /\ sweepLog[3].ti = 2
    /\ sweepLog[3].res = "some"
    /\ Cardinality(DOMAIN data) = 2

----------------------------------------------------------------------------
(* Claims about the LAN receiver, checked under SpecLanRun *)

\* an IPv4 source address in 10.0.0.0/8
InTen(addr) == addr.v4 /\ addr.ip[1] = 10

\* a step of receive_broadcasts that handles a datagram from addr
RecvOf(addr) ==
    /\ lanPc["receive"] = "select"
    /\ vdata' = RecvData(vdata, lanOwnIp, addr, now)
    /\ warned' = (warned \/ extract_private_ip(addr) = None)
    /\ UNCHANGED <<now, sleepEnd, lanLog, lanOwnIp>>

\* C17: the receiver changes the registry only for a datagram whose source
\* is an IPv4 address in 10/8 other than own_ip, which it records; for any
\* other source the registry is unchanged; in each case the loop keeps
\* running, and the payload never enters the registry.
C17_OnlyTenSlashEightRecorded ==
    [][\A addr \in Sources :
          RecvOf(addr) =>
             /\ lanPc' = lanPc
             /\ (~InTen(addr) \/ addr.ip = lanOwnIp) => vdata' = vdata
             /\ (InTen(addr) /\ addr.ip # lanOwnIp) =>
                   /\ DOMAIN vdata' = DOMAIN vdata \cup {addr.ip}
                   /\ \A ip \in DOMAIN vdata : vdata'[ip] = vdata[ip]
             /\ \A payload \in Payloads :
                   test(vdata', payload) => (test(vdata, payload) \/ payload = addr.ip)]_vars

C17_Witness ==
    /\ warned
    /\ lanOwnIp = Eth0Ip
    /\ DOMAIN vdata = {PeerIp}
    /\ vdata[PeerIp].last_seen > 0
    /\ lanPc["receive"] = "select"

----------------------------------------------------------------------------
(* Claims about the broadcast target, checked under SpecLanRun *)

\* C18: for own_ip = o1.o2.o3.o4 every broadcast is sent to o1.o2.o3.255 on
\* port 12345 and carries the four octets of own_ip.
C18_BroadcastTarget ==
    \A j \in 1..Len(lanLog) :
        lanLog[j].ev = "send" =>
           /\ lanLog[j].to = to_string(<<lanOwnIp[1], lanOwnIp[2], lanOwnIp[3], 255>>)
           /\ lanLog[j].port = 12345
           /\ lanLog[j].payload = <<lanOwnIp[1], lanOwnIp[2], lanOwnIp[3], lanOwnIp[4]>>

----------------------------------------------------------------------------
(* Claims about the DNS socket, checked under SpecSweep *)

\* C19: the datagram a query takes as its response answers the name of that
\* query: a record inserted with (tag, seq) carries an IP the resolver
\* returned for the name of (tag, seq), and a response that comes after its
\* query timed out is never taken as the answer to a later query.
C19_AnswerIsForTheNameAsked ==
    \A j \in 1..Len(sweepLog) :
        sweepLog[j].from # None =>
            sweepLog[j].from = Some(QName(sweepLog[j].tag, sweepLog[j].seq))

----------------------------------------------------------------------------
(* Claims about a dropped shutdown handle, checked under FairSpecMain *)

\* C20: dropping the shutdown sender without sending stops discovery too: the
\* DNS loop exits and terminated fires; the LAN forwarding task signals the
\* three loops, which exit.
C20_DropStopsDiscovery ==
    /\ (shutdownTx = "dropped") ~> (loopPc = "exited" /\ fin = 1)
    /\ (lanCancel = "dropped") ~>
          (fwdPc = "done" /\ \A l \in Loops : sig[l] /\ lanPc[l] = "exited")

C20_Witness ==
    /\ lanCancel = "dropped"
    /\ fwdPc = "done"
    /\ \A l \in Loops : sig[l] /\ lanPc[l] = "exited"
    /\ PeerIp \in DOMAIN vdata

====
